---- MODULE Spec2Model ----
(***************************************************************************)
(* Model of the halftone generator (src/src): the dot renderers of         *)
(* core/half_tone.py, the normalizer of core/pre_processing.py and the     *)
(* command line driver of main.py.                                          *)
(*                                                                          *)
(* Numbers.  Python floats are modelled as exact fixed-point integers:      *)
(*   - a brightness is a fraction num/den (pixel levels are tenths),        *)
(*   - the value of np.power is kept to 1/FixedOne, rounded down,           *)
(*   - max_radius is given in tenths of a pixel, so a radius is an integer  *)
(*     in units of 1/(10*FixedOne) pixel.                                   *)
(* The power x^(gp/gq) is computed exactly as an integer root, with the     *)
(* products held in multi-digit integers (TLC's integers are 32 bit).       *)
(***************************************************************************)
EXTENDS Integers, Sequences, FiniteSets, TLC

VARIABLES
    \* ---- dot renderer (half_tone.py)
    brightness_map,   \* [<<row, col>> -> level], level in tenths of full brightness
    width, height,    \* brightness_map.shape
    config,           \* the style dictionary handed to the renderer
    kind,             \* which renderer runs: "classic", "variable" or "square"
    dot_gamma,        \* <<gp, gq>>: the exponent gp/gq of the size curve
    canvas,           \* the set of pixels <<px, py>> painted in the mark colour
    canvas_made,      \* Image.new has run
    cells,            \* log of the cells visited so far, in visiting order
    x, y,             \* the loop variables of the two range() loops
    dpc,              \* position of the renderer: "start", "loop", "done", "raised"
    \* ---- normalizer (pre_processing.py)
    image_file,       \* what cv2.imread finds: "ok", "undecodable" or "zero_area"
    luma,             \* the uint8 array that reaches the float conversion
    variant,          \* "basic": preprocess_image, "advanced": preprocess_image_advanced
    gamma,            \* <<gp, gq>>: the gamma argument gp/gq, in lowest terms
    enhanced,         \* enhanced_contrast / contrast_enhancement > 0
    edge_enhancement, \* the edge darkening strength, in 1/NormOne
    gray,             \* the float array: a sequence of float values
    gray_ref,         \* the same pipeline run with its gamma stage removed (followed
                      \* for gamma = 1.0 only)
    stretched,        \* the percentile stretch has been applied
    npc,              \* "start", "loaded", "float", "gamma_done", "edge_done", "done", "raised"
    \* ---- command line driver (main.py)
    args,             \* the parsed arguments; an option that may be absent is a set
    style_config,     \* the style dictionary after the overrides
    has_field,        \* preprocess_image has returned a brightness map
    stages,           \* the stages that have been entered, in order
    saved,            \* number of output files written
    ret,              \* what main returns: "running", "0", "1", "None", "SystemExit2"
    mpc,              \* "parse", "config", "preprocess", "render", "overlay", "save",
                      \* "batch", "batch_loop", "batch_end", "batch_return", "exit"
    image_files,      \* batch: the input directory holds image files
    loop_i, successful, failed,   \* batch: the loop variable i and the two counters
    bret,             \* what batch_generate returns: "running", "0", "1"
    \* ---- contour renderer (half_tone.py, generate_line_halftone)
    level_i,          \* the loop variable i of "for i in range(num_levels)"
    traced,           \* log of the contours findContours has returned, in order
    lpc,              \* "start", "levels", "done"
    \* ---- quote overlay (quote_overlay.py, add_quote_overlay)
    quote_len,        \* len(quote_text)
    repeat_count,     \* quote_config["repeat_count"]
    image_width,      \* output.size[0]
    text_width,       \* bbox[2] - bbox[0] of the repeated text
    x_offset,         \* where the next copy of the text is drawn
    draws,            \* number of overlay_draw.text calls so far
    qpc               \* "start", "loop", "done"

dotVars == <<brightness_map, width, height, config, kind, dot_gamma,
             canvas, canvas_made, cells, x, y, dpc>>

normVars == <<image_file, luma, variant, gamma, enhanced, edge_enhancement,
              gray, gray_ref, stretched, npc>>

cliVars == <<args, style_config, has_field, stages, saved, ret, mpc,
             image_files, loop_i, successful, failed, bret>>

lineVars == <<level_i, traced, lpc>>

quoteVars == <<quote_len, repeat_count, image_width, text_width, x_offset, draws, qpc>>

vars == <<dotVars, normVars, cliVars, lineVars, quoteVars>>

-----------------------------------------------------------------------------
(* Bounds of the model *)

MaxWidth == 3
MaxPixels == 3
MaxCount == 3

-----------------------------------------------------------------------------
(* Fixed-point arithmetic *)

BigBase == 1000
FixedOne == 10000
NormOne == 1000
LevelOne == 10
RadiusUnit == 10

Min(a, b) == IF a < b THEN a ELSE b
Max(a, b) == IF a > b THEN a ELSE b

RECURSIVE Gcd(_, _)
Gcd(a, b) == IF b = 0 THEN a ELSE Gcd(b, a % b)

\* a fraction <<num, den>> in lowest terms
Reduce(num, den) == LET g == Gcd(num, den) IN <<num \div g, den \div g>>

RECURSIVE BigFromInt(_)
BigFromInt(c) ==
    IF c = 0 THEN <<>> ELSE <<c % BigBase>> \o BigFromInt(c \div BigBase)

RECURSIVE BigMulCarry(_, _, _)
BigMulCarry(a, m, c) ==
    IF a = <<>> THEN BigFromInt(c)
    ELSE LET t == Head(a) * m + c
         IN  <<t % BigBase>> \o BigMulCarry(Tail(a), m, t \div BigBase)

\* the multi-digit integer a (least significant digit first) times m
BigMul(a, m) == IF m = 0 THEN <<>> ELSE BigMulCarry(a, m, 0)

RECURSIVE BigMulPow(_, _, _)
BigMulPow(a, m, k) == IF k = 0 THEN a ELSE BigMulPow(BigMul(a, m), m, k - 1)

RECURSIVE BigLeqAt(_, _, _)
BigLeqAt(a, b, i) ==
    IF i = 0 THEN TRUE
    ELSE IF a[i] # b[i] THEN a[i] < b[i]
    ELSE BigLeqAt(a, b, i - 1)

BigLeq(a, b) ==
    IF Len(a) # Len(b) THEN Len(a) < Len(b) ELSE BigLeqAt(a, b, Len(a))

\* the largest r in lo..hi with r^gq * lhsScale <= rhs (it holds for lo)
RECURSIVE RootSearch(_, _, _, _, _)
RootSearch(lo, hi, gq, lhsScale, rhs) ==
    IF lo = hi THEN lo
    ELSE LET mid == (lo + hi + 1) \div 2
         IN  IF BigLeq(BigMulPow(lhsScale, mid, gq), rhs)
             THEN RootSearch(mid, hi, gq, lhsScale, rhs)
             ELSE RootSearch(lo, mid - 1, gq, lhsScale, rhs)

\* floor(scale * (num/den)^(gp/gq)), for gp >= 0, gq > 0 and a value of at most hi
PowFloorScaled(scale, hi, num, den, gp, gq) ==
    RootSearch(0, hi, gq, BigMulPow(<<1>>, den, gp),
               BigMulPow(BigMulPow(<<1>>, scale, gq), num, gp))

\* np.power(num/den, gp/gq) for 0 <= num <= den: floor(FixedOne * (num/den)^(gp/gq))
PowFloor(num, den, gp, gq) == PowFloorScaled(FixedOne, FixedOne, num, den, gp, gq)

-----------------------------------------------------------------------------
(* pre_processing.py: the normalizer *)

\* float values: finite ones in 1/NormOne, and the IEEE specials
Fin(v) == [k |-> "fin", v |-> v]
PosInf == [k |-> "inf", v |-> 0]
NegInf == [k |-> "ninf", v |-> 0]
NaN == [k |-> "nan", v |-> 0]

FNeg(a) == CASE a.k = "fin" -> Fin(0 - a.v)
             [] a.k = "inf" -> NegInf
             [] a.k = "ninf" -> PosInf
             [] OTHER -> NaN

FAdd(a, b) ==
    CASE a.k = "nan" \/ b.k = "nan" -> NaN
      [] a.k = "fin" /\ b.k = "fin" -> Fin(a.v + b.v)
      [] a.k = "fin" -> b
      [] b.k = "fin" -> a
      [] a.k = b.k -> a
      [] OTHER -> NaN

FSub(a, b) == FAdd(a, FNeg(b))

\* a * (t100 / 100) for 0 <= t100 <= 100
FScale(a, t100) ==
    CASE a.k = "nan" -> NaN
      [] a.k = "fin" -> Fin((a.v * t100) \div 100)
      [] t100 = 0 -> NaN
      [] OTHER -> a

\* a / b for b > 0 or b infinite
FDiv(a, b) ==
    CASE a.k = "nan" \/ b.k = "nan" -> NaN
      [] a.k = "fin" /\ b.k = "fin" -> Fin((a.v * NormOne) \div b.v)
      [] a.k = "fin" -> Fin(0)
      [] b.k = "fin" -> a
      [] OTHER -> NaN

\* a > b and a <= b; every comparison with NaN is false
FGreater(a, b) ==
    CASE a.k = "nan" \/ b.k = "nan" -> FALSE
      [] a.k = "fin" /\ b.k = "fin" -> a.v > b.v
      [] a.k = "inf" -> b.k # "inf"
      [] a.k = "ninf" -> FALSE
      [] OTHER -> b.k = "ninf"

\* the order np.sort puts values in: NaN last
SortsBefore(a, b) ==
    CASE a.k = "nan" -> b.k = "nan"
      [] b.k = "nan" -> TRUE
      [] OTHER -> ~FGreater(a, b)

\* np.clip(a, 0.0, 1.0): NaN stays NaN
FClip01(a) ==
    CASE a.k = "nan" -> NaN
      [] a.k = "inf" -> Fin(NormOne)
      [] a.k = "ninf" -> Fin(0)
      [] OTHER -> Fin(Max(0, Min(NormOne, a.v)))

\* the values the model's images are made of, and their float values v / 255
PixelValues == {0, 128, 135, 148, 255}
ToFloat(v8) == (v8 * NormOne) \div 255

\* the gamma arguments the model explores: the no-op 1.0, presets above 1, a
\* value below 1 and a negative one
NormGammas == {<<1, 1>>, <<6, 5>>, <<1, 2>>, <<-1, 1>>}

GammaTable ==
    [g \in NormGammas |->
        [v \in { ToFloat(v8) : v8 \in PixelValues } |->
            IF g[1] >= 0
            THEN Fin(PowFloorScaled(NormOne, NormOne, v, NormOne, g[1], g[2]))
            ELSE IF v = 0 THEN PosInf
            ELSE Fin(PowFloorScaled(NormOne, NormOne * NormOne, NormOne, v, 0 - g[1], g[2]))]]

\* np.power(gray, gamma) on one value of the freshly converted array
FPow(a, g) == GammaTable[g][a.v]

\* lines 50-55: if gamma != 1.0: gray = np.power(gray, gamma)
GammaStagePreset(arr, g) ==
    [i \in DOMAIN arr |-> FPow(arr[i], IF g = <<1, 1>> THEN <<6, 5>> ELSE g)]

GammaStage(arr, g) ==
    IF g # <<1, 1>> THEN [i \in DOMAIN arr |-> FPow(arr[i], g)] ELSE arr

\* lines 121-131: gray = np.clip(gray - edges * edge_enhancement, 0.0, 1.0),
\* edges the 0/1 mask Canny returns
EdgeStage(arr, mask, strength) ==
    IF strength > 0
    THEN [i \in DOMAIN arr |-> FClip01(FSub(arr[i], Fin(mask[i] * strength)))]
    ELSE arr

RECURSIVE InsertSorted(_, _)
InsertSorted(a, sorted) ==
    IF sorted = <<>> THEN <<a>>
    ELSE IF SortsBefore(a, Head(sorted)) THEN <<a>> \o sorted
    ELSE <<Head(sorted)>> \o InsertSorted(a, Tail(sorted))

RECURSIVE np_sort(_)
np_sort(arr) == IF arr = <<>> THEN <<>> ELSE InsertSorted(Head(arr), np_sort(Tail(arr)))

\* numpy's linear interpolation a + (b - a) * t, taken from b for t >= 0.5
Lerp(a, b, t100) ==
    LET diff == FSub(b, a)
    IN  IF t100 >= 50 THEN FSub(b, FScale(diff, 100 - t100))
        ELSE FAdd(a, FScale(diff, t100))

\* np.percentile(arr, q): NaN if the array holds one, else interpolated
\* between the two order statistics around (n - 1) * q / 100
Percentile(arr, q) ==
    LET sorted == np_sort(arr)
        n      == Len(arr)
        pos    == (n - 1) * q
        lo     == pos \div 100 + 1
        hi     == Min(lo + 1, n)
    IN  IF sorted[n].k = "nan" THEN NaN
        ELSE Lerp(sorted[lo], sorted[hi], pos % 100)

\* the stretch thresholds 0.05 and 0.1, in 1/NormOne
StretchThresholdBasic(var) == 50

StretchThreshold(var) == IF var = "basic" THEN 50 ELSE 100

\* lines 61-64: the stretch is applied if gray_max - gray_min > threshold
StretchApplies(arr, var) ==
    FGreater(FSub(Percentile(arr, 99), Percentile(arr, 1)), Fin(StretchThreshold(var)))

\* lines 61-67: gray = np.clip((gray - gray_min) / (gray_max - gray_min), 0, 1)
StretchStage(arr, var) ==
    LET gray_min == Percentile(arr, 1)
        gray_max == Percentile(arr, 99)
    IN  IF StretchApplies(arr, var)
        THEN [i \in DOMAIN arr |->
                FClip01(FDiv(FSub(arr[i], gray_min), FSub(gray_max, gray_min)))]
        ELSE arr

\* cv2.imread returns None for a file it cannot decode
ImreadNeverNone(file) == FALSE

ImreadReturnsNone(file) == file = "undecodable"

\* cv2.resize raises cv2.error for an image with no pixels
ResizeRaises(file) == file = "zero_area"

NormReset ==
    /\ gray = <<>> /\ gray_ref = <<>> /\ stretched = FALSE /\ npc = "start"

\* the normalizer at rest, for the specifications of the other components
NormIdle ==
    /\ image_file = "ok" /\ luma = <<>> /\ variant = "basic" /\ gamma = <<1, 1>>
    /\ enhanced = FALSE /\ edge_enhancement = 0
    /\ NormReset

NormInit ==
    /\ \/ /\ image_file = "ok"
          /\ \E n \in 1 .. MaxPixels : luma \in [1 .. n -> PixelValues]
       \/ /\ image_file \in {"undecodable", "zero_area"}
          /\ luma = <<>>
    /\ gamma \in NormGammas
    /\ enhanced \in BOOLEAN
    /\ \/ variant = "basic" /\ edge_enhancement = 0
       \/ variant = "advanced" /\ edge_enhancement \in {0, 100}
    /\ NormReset

\* lines 29-32: img = cv2.imread(path); if img is None: raise ValueError
NLoad ==
    /\ npc = "start"
    /\ npc' = IF ImreadReturnsNone(image_file) THEN "raised" ELSE "loaded"
    /\ UNCHANGED <<image_file, luma, variant, gamma, enhanced, edge_enhancement,
                   gray, gray_ref, stretched>>
    /\ UNCHANGED <<dotVars, cliVars, lineVars, quoteVars>>

\* lines 35-48: resize, grayscale, optional CLAHE (cv2: they leave some uint8
\* array, luma), then gray = gray.astype(np.float32) / 255.0
NFloat ==
    /\ npc = "loaded"
    /\ IF ResizeRaises(image_file)
       THEN npc' = "raised" /\ UNCHANGED <<gray, gray_ref>>
       ELSE /\ gray' = [i \in DOMAIN luma |-> Fin(ToFloat(luma[i]))]
            /\ gray_ref' = IF gamma = <<1, 1>> THEN gray' ELSE <<>>
            /\ npc' = "float"
    /\ UNCHANGED <<image_file, luma, variant, gamma, enhanced, edge_enhancement, stretched>>
    /\ UNCHANGED <<dotVars, cliVars, lineVars, quoteVars>>

\* lines 54-55
NGamma ==
    /\ npc = "float"
    /\ gray' = GammaStage(gray, gamma)
    /\ gray_ref' = gray_ref
    /\ npc' = IF variant = "advanced" THEN "gamma_done" ELSE "edge_done"
    /\ UNCHANGED <<image_file, luma, variant, gamma, enhanced, edge_enhancement, stretched>>
    /\ UNCHANGED <<dotVars, cliVars, lineVars, quoteVars>>

\* lines 121-131 of preprocess_image_advanced; Canny's mask is some 0/1 mask,
\* a function of the array it is given: equal arrays get equal masks
NEdge ==
    /\ npc = "gamma_done"
    /\ \E mask \in [DOMAIN gray -> {0, 1}] :
          /\ edge_enhancement = 0 => \A i \in DOMAIN mask : mask[i] = 0
          /\ gray' = EdgeStage(gray, mask, edge_enhancement)
          /\ \E mask_ref \in [DOMAIN gray_ref -> {0, 1}] :
                /\ edge_enhancement = 0 => \A i \in DOMAIN mask_ref : mask_ref[i] = 0
                /\ gray = gray_ref => mask = mask_ref
                /\ gray_ref' = EdgeStage(gray_ref, mask_ref, edge_enhancement)
    /\ npc' = "edge_done"
    /\ UNCHANGED <<image_file, luma, variant, gamma, enhanced, edge_enhancement, stretched>>
    /\ UNCHANGED <<dotVars, cliVars, lineVars, quoteVars>>

\* lines 58-67 (133-140): the percentile stretch, and the return
NStretch ==
    /\ npc = "edge_done"
    /\ gray' = StretchStage(gray, variant)
    /\ gray_ref' = IF gray_ref = <<>> THEN <<>> ELSE StretchStage(gray_ref, variant)
    /\ stretched' = StretchApplies(gray, variant)
    /\ npc' = "done"
    /\ UNCHANGED <<image_file, luma, variant, gamma, enhanced, edge_enhancement>>
    /\ UNCHANGED <<dotVars, cliVars, lineVars, quoteVars>>

NormNext == NLoad \/ NFloat \/ NGamma \/ NEdge \/ NStretch

-----------------------------------------------------------------------------
(* half_tone.py: the dot renderers *)

MinRadius == 6
MinSquareSize == 12

\* the exponents the size curve is run with: 0.7 is the one of the classic and
\* the square renderer, the others are passed to generate_variable_halftone
ClassicGamma == <<7, 10>>
DotGammas == {ClassicGamma, <<1, 2>>, <<3, 2>>}

Heights == {1, 2}
MaxCellPixels == MaxWidth * 2

Pixels(w, h) == (0 .. h - 1) \X (0 .. w - 1)

\* every value 1 - mean a cell of the model can have, in lowest terms
AllIntensities ==
    { Reduce(k, n * LevelOne) : k \in 0 .. MaxCellPixels * LevelOne, n \in 1 .. MaxCellPixels }

PowTable ==
    [g \in DotGammas |->
        [f \in { i \in AllIntensities : i[1] <= i[2] } |-> PowFloor(f[1], f[2], g[1], g[2])]]

\* np.power(num/den, g), looked up in the table of PowFloor
np_power(num, den, g) == PowTable[g][Reduce(num, den)]

\* brightness_map[y0:y0+cell_size, x0:x0+cell_size]: slicing clips at the edges
CellPixelsWholeMap(w, h, x0, y0, cell_size) == Pixels(w, h)

CellPixels(w, h, x0, y0, cell_size) ==
    { p \in Pixels(w, h) : /\ y0 <= p[1] /\ p[1] < y0 + cell_size
                           /\ x0 <= p[2] /\ p[2] < x0 + cell_size }

\* the sum of map over columns c0..c1 of row r, and over the rows of ps
RECURSIVE SumRow(_, _, _, _)
SumRow(map, r, c0, c1) ==
    IF c0 > c1 THEN 0 ELSE map[<<r, c0>>] + SumRow(map, r, c0 + 1, c1)

RECURSIVE SumRows(_, _, _)
SumRows(map, ps, rows) ==
    IF rows = {} THEN 0
    ELSE LET r    == CHOOSE q \in rows : TRUE
             cols == { p[2] : p \in { q \in ps : q[1] = r } }
             c0   == CHOOSE c \in cols : \A d \in cols : c <= d
             c1   == CHOOSE c \in cols : \A d \in cols : c >= d
         IN  SumRow(map, r, c0, c1) + SumRows(map, ps, rows \ {r})

SumOver(map, ps) == SumRows(map, ps, { p[1] : p \in ps })

\* np.mean(cell) as the fraction <<sum, count * LevelOne>>
np_mean(map, ps) == <<SumOver(map, ps), Cardinality(ps) * LevelOne>>

\* dot_intensity = power(1.0 - brightness, gamma), in 1/FixedOne
DotIntensityNotInverted(brightness, g) == np_power(brightness[1], brightness[2], g)

DotIntensity(brightness, g) == np_power(brightness[2] - brightness[1], brightness[2], g)

\* radius = max_radius * dot_intensity
DotRadius(max_radius, intensity) == max_radius * intensity

\* square_size = (max_radius * 2) * dot_intensity
SquareSizeFromRadius(max_radius, intensity) == max_radius * intensity

SquareSize(max_radius, intensity) == (max_radius * 2) * intensity

\* the half-extent of the mark of a cell: radius, or half_size = square_size / 2
MarkExtent(k, cfg, g, brightness) ==
    LET intensity == DotIntensity(brightness, g)
    IN  IF k = "square" THEN SquareSize(cfg.max_radius, intensity) \div 2
        ELSE DotRadius(cfg.max_radius, intensity)

\* the visibility floor: if radius < min_radius: continue (square_size < 1.2)
MarkSkippedNever(k, cfg, g, brightness) == FALSE

MarkSkipped(k, cfg, g, brightness) ==
    LET intensity == DotIntensity(brightness, g)
    IN  IF k = "square"
        THEN SquareSize(cfg.max_radius, intensity) < MinSquareSize * FixedOne
        ELSE DotRadius(cfg.max_radius, intensity) < MinRadius * FixedOne

\* cx = x + cell_size // 2
CellCenterAtOrigin(origin, cell_size) == origin

CellCenter(origin, cell_size) == origin + cell_size \div 2

\* what one pass of the inner loop does with the cell at (x0, y0); a cell that
\* is skipped is logged with size 0
CellOutcome(map, w, h, k, cfg, g, x0, y0) ==
    LET ps         == CellPixels(w, h, x0, y0, cfg.cell_size)
        brightness == np_mean(map, ps)
        skipped    == ps = {} \/ MarkSkipped(k, cfg, g, brightness)
    IN  [x |-> x0, y |-> y0, n |-> Cardinality(ps), sum |-> brightness[1],
         drawn |-> ~skipped,
         size |-> IF skipped THEN 0 ELSE MarkExtent(k, cfg, g, brightness),
         cx |-> CellCenter(x0, cfg.cell_size), cy |-> CellCenter(y0, cfg.cell_size)]

\* draw.ellipse / draw.rectangle: the canvas pixels a mark covers (the extent
\* taken to a tenth of a pixel)
MarkPixels(w, h, k, c) ==
    LET r == c.size \div FixedOne
    IN  IF k = "square"
        THEN { p \in Pixels(w, h) :
                 /\ (p[2] - c.cx) * RadiusUnit <= r /\ (c.cx - p[2]) * RadiusUnit <= r
                 /\ (p[1] - c.cy) * RadiusUnit <= r /\ (c.cy - p[1]) * RadiusUnit <= r }
        ELSE { p \in Pixels(w, h) :
                 (p[2] - c.cx) * (p[2] - c.cx) * RadiusUnit * RadiusUnit
                 + (p[1] - c.cy) * (p[1] - c.cy) * RadiusUnit * RadiusUnit <= r * r }

\* draw.ellipse(..., fill=dot_color): the pixels of the mark take the mark
\* colour, the others keep theirs
PaintOnFreshCanvas(cv, mark) == mark

Paint(cv, mark) == cv \cup mark

\* the inputs of the renderer runs the model explores
ValidConfigs ==
    { [cell_size |-> c, max_radius |-> m, brightness_threshold |-> {}] :
        c \in {1, 2}, m \in {5, 15, 70} }
PresetConfig == [cell_size |-> 12, max_radius |-> 70, brightness_threshold |-> {}]
InvalidConfigs ==
    { [cell_size |-> c, max_radius |-> 70, brightness_threshold |-> {}] : c \in {-1, 0} }
ThresholdConfigs ==
    { [cell_size |-> c, max_radius |-> 70, brightness_threshold |-> {5}] : c \in {1, 2} }
Renderers ==
    {<<"classic", ClassicGamma>>, <<"square", ClassicGamma>>}
        \cup { <<"variable", g>> : g \in DotGammas \ {ClassicGamma} }

ScenarioFields ==
    { [w |-> 12, h |-> 12, map |-> [p \in Pixels(12, 12) |-> 0]],
      [w |-> 12, h |-> 12, map |-> [p \in Pixels(12, 12) |-> LevelOne]],
      [w |-> 24, h |-> 12, map |-> [p \in Pixels(24, 12) |-> IF p[2] < 12 THEN 0 ELSE LevelOne]] }

DotReset ==
    /\ canvas = {} /\ canvas_made = FALSE /\ cells = <<>>
    /\ x = 0 /\ y = 0 /\ dpc = "start"

\* the renderer at rest, for the specifications of the other components
DotIdle ==
    /\ brightness_map = <<>> /\ width = 0 /\ height = 0
    /\ config = PresetConfig /\ kind = "classic" /\ dot_gamma = ClassicGamma
    /\ DotReset

DotInit ==
    /\ \E r \in Renderers : kind = r[1] /\ dot_gamma = r[2]
    /\ \/ /\ \E w \in 1 .. MaxWidth, h \in Heights :
               /\ width = w /\ height = h
               /\ brightness_map \in [Pixels(w, h) -> {0, LevelOne}]
          /\ config \in ValidConfigs \cup InvalidConfigs \cup {PresetConfig}
       \/ /\ \E w \in 1 .. MaxWidth, h \in Heights :
               /\ width = w /\ height = h
               /\ brightness_map \in [Pixels(w, h) -> {3, 9}]
          /\ config \in ThresholdConfigs
       \/ /\ \E f \in ScenarioFields :
               width = f.w /\ height = f.h /\ brightness_map = f.map
          /\ config = PresetConfig
    /\ DotReset

\* lines 40-49: read the shape and the configuration, create the canvas, enter
\* the loops; range() raises ValueError for a step of 0 and is empty for a
\* negative step
DotStart ==
    /\ dpc = "start"
    /\ canvas_made' = TRUE
    /\ canvas' = {}
    /\ dpc' = IF config.cell_size = 0 THEN "raised"
              ELSE IF config.cell_size < 0 \/ height <= 0 \/ width <= 0 THEN "done"
              ELSE "loop"
    /\ UNCHANGED <<brightness_map, width, height, config, kind, dot_gamma, cells, x, y>>
    /\ UNCHANGED <<normVars, cliVars, lineVars, quoteVars>>

\* lines 50-95: one pass of the inner loop, then the loops' own stepping
DotCell ==
    /\ dpc = "loop"
    /\ LET c == CellOutcome(brightness_map, width, height, kind, config, dot_gamma, x, y)
       IN  /\ cells' = Append(cells, c)
           /\ canvas' = IF c.drawn THEN Paint(canvas, MarkPixels(width, height, kind, c))
                        ELSE canvas
    /\ IF x + config.cell_size < width
       THEN x' = x + config.cell_size /\ y' = y /\ dpc' = "loop"
       ELSE IF y + config.cell_size < height
       THEN x' = 0 /\ y' = y + config.cell_size /\ dpc' = "loop"
       ELSE x' = x /\ y' = y /\ dpc' = "done"
    /\ UNCHANGED <<brightness_map, width, height, config, kind, dot_gamma, canvas_made>>
    /\ UNCHANGED <<normVars, cliVars, lineVars, quoteVars>>

DotNext == DotStart \/ DotCell

-----------------------------------------------------------------------------
(* main.py: the command line driver *)

\* config.py, HALFTONE_STYLES: max_radius in tenths of a pixel, gamma in hundredths
HALFTONE_STYLES ==
    [ classic_dots |-> [cell_size |-> 12, max_radius |-> 70, gamma |-> 120, enhance_contrast |-> FALSE],
      fine_dots    |-> [cell_size |-> 8,  max_radius |-> 50, gamma |-> 110, enhance_contrast |-> FALSE],
      bold_dots    |-> [cell_size |-> 16, max_radius |-> 100, gamma |-> 130, enhance_contrast |-> FALSE],
      newspaper    |-> [cell_size |-> 10, max_radius |-> 60, gamma |-> 140, enhance_contrast |-> FALSE],
      ultra_fine   |-> [cell_size |-> 6,  max_radius |-> 40, gamma |-> 100, enhance_contrast |-> FALSE],
      artistic     |-> [cell_size |-> 14, max_radius |-> 90, gamma |-> 125, enhance_contrast |-> TRUE] ]

\* lines 175-181: "if args.x:" takes an override only if it is given and truthy
Override(preset, given) ==
    IF given # {} /\ given # {0} THEN CHOOSE v \in given : TRUE ELSE preset

\* lines 172-181
LoadStyleConfig(a) ==
    LET preset == HALFTONE_STYLES[a.style]
    IN  [cell_size        |-> Override(preset.cell_size, a.cell_size),
         max_radius       |-> Override(preset.max_radius, a.max_radius),
         gamma            |-> Override(preset.gamma, a.gamma),
         enhance_contrast |-> preset.enhance_contrast]

\* the arguments the model explores
SingleArgs ==
    { [batch |-> FALSE, input_dir |-> FALSE, count |-> 10, input |-> TRUE,
       style |-> st, effect |-> e, no_quote |-> nq,
       cell_size |-> c, max_radius |-> m, gamma |-> g] :
        st \in {"classic_dots", "artistic"}, e \in {"classic", "line", "square"},
        nq \in BOOLEAN,
        c \in {{}, {-4}, {0}, {8}}, m \in {{}, {-10}, {0}, {30}},
        g \in {{}, {-100}, {0}, {200}} }

NoInputArgs ==
    { [batch |-> FALSE, input_dir |-> FALSE, count |-> 10, input |-> FALSE,
       style |-> "classic_dots", effect |-> "classic", no_quote |-> FALSE,
       cell_size |-> {}, max_radius |-> {}, gamma |-> {}] }

BatchArgs ==
    { [batch |-> TRUE, input_dir |-> d, count |-> n, input |-> FALSE,
       style |-> "classic_dots", effect |-> "classic", no_quote |-> FALSE,
       cell_size |-> {}, max_radius |-> {}, gamma |-> {}] :
        d \in BOOLEAN, n \in -1 .. MaxCount }

CliReset ==
    /\ style_config = HALFTONE_STYLES["classic_dots"]
    /\ has_field = FALSE /\ stages = <<>> /\ saved = 0
    /\ ret = "running" /\ mpc = "parse"
    /\ loop_i = 0 /\ successful = 0 /\ failed = 0 /\ bret = "running"

\* the driver at rest, for the specifications of the other components
CliIdle ==
    /\ args \in NoInputArgs /\ image_files = FALSE
    /\ CliReset

CliInit ==
    /\ \/ args \in SingleArgs /\ image_file \in {"ok", "undecodable", "zero_area"}
          /\ image_files = FALSE
       \/ args \in NoInputArgs /\ image_file = "ok" /\ image_files = FALSE
       \/ args \in BatchArgs /\ image_file = "ok" /\ image_files \in BOOLEAN
    /\ luma = <<>> /\ variant = "basic" /\ gamma = <<1, 1>>
    /\ enhanced = FALSE /\ edge_enhancement = 0
    /\ NormReset
    /\ CliReset

\* lines 155-165: parse_args and the validation of the mode; parser.error exits
\* with status 2
MParse ==
    /\ mpc = "parse"
    /\ IF args.batch
       THEN IF ~args.input_dir
            THEN mpc' = "exit" /\ ret' = "SystemExit2"
            ELSE mpc' = "batch" /\ ret' = ret
       ELSE IF ~args.input
            THEN mpc' = "exit" /\ ret' = "SystemExit2"
            ELSE mpc' = "config" /\ ret' = ret
    /\ UNCHANGED <<args, style_config, has_field, stages, saved,
                   image_files, loop_i, successful, failed, bret>>
    /\ UNCHANGED <<dotVars, normVars, lineVars, quoteVars>>

\* lines 167-202: the output directory, the style with its overrides, the banner
MConfig ==
    /\ mpc = "config"
    /\ style_config' = LoadStyleConfig(args)
    /\ mpc' = "preprocess"
    /\ UNCHANGED <<args, has_field, stages, saved, ret,
                   image_files, loop_i, successful, failed, bret>>
    /\ UNCHANGED <<dotVars, normVars, lineVars, quoteVars>>

\* "except Exception as e: print(...); return 1": where main is after a stage
\* has raised, next being the stage that would have followed
AfterFailureGoesOn(next) == next

AfterFailure(next) == "exit"

\* preprocess_image raises for a file imread cannot decode or resize cannot take
PreprocessRaises(file) == ImreadReturnsNone(file) \/ ResizeRaises(file)

\* lines 204-218: step 1; an exception prints the error and returns 1
MPreprocess ==
    /\ mpc = "preprocess"
    /\ stages' = Append(stages, "preprocess")
    /\ IF PreprocessRaises(image_file)
       THEN mpc' = AfterFailure("render") /\ ret' = "1" /\ has_field' = has_field
       ELSE mpc' = "render" /\ ret' = ret /\ has_field' = TRUE
    /\ UNCHANGED <<args, style_config, saved, image_files, loop_i, successful, failed, bret>>
    /\ UNCHANGED <<dotVars, normVars, lineVars, quoteVars>>

\* the dot renderers raise ValueError (range() with step 0) for cell_size = 0;
\* the contour renderer does not read cell_size
RenderRaises(a, cfg) == a.effect # "line" /\ cfg.cell_size = 0

\* lines 220-249: step 2; the renderer may also fail for a reason of its
\* environment (memory)
MRender ==
    /\ mpc = "render"
    /\ stages' = Append(stages, "render")
    /\ \E env_ok \in BOOLEAN :
          IF RenderRaises(args, style_config) \/ ~env_ok
          THEN mpc' = AfterFailure("overlay") /\ ret' = "1"
          ELSE mpc' = "overlay" /\ ret' = ret
    /\ UNCHANGED <<args, style_config, has_field, saved,
                   image_files, loop_i, successful, failed, bret>>
    /\ UNCHANGED <<dotVars, normVars, lineVars, quoteVars>>

\* lines 251-273: step 3, skipped with --no-quote; add_quote_overlay may raise
MOverlay ==
    /\ mpc = "overlay"
    /\ IF args.no_quote
       THEN mpc' = "save" /\ ret' = ret /\ stages' = stages
       ELSE /\ stages' = Append(stages, "overlay")
            /\ \E env_ok \in BOOLEAN :
                  IF env_ok THEN mpc' = "save" /\ ret' = ret
                  ELSE mpc' = AfterFailure("save") /\ ret' = "1"
    /\ UNCHANGED <<args, style_config, has_field, saved,
                   image_files, loop_i, successful, failed, bret>>
    /\ UNCHANGED <<dotVars, normVars, lineVars, quoteVars>>

\* lines 275-289: save; an exception returns 1, success returns 0
MSave ==
    /\ mpc = "save"
    /\ stages' = Append(stages, "save")
    /\ \E env_ok \in BOOLEAN :
          IF env_ok THEN saved' = saved + 1 /\ ret' = "0"
          ELSE saved' = saved /\ ret' = "1"
    /\ mpc' = "exit"
    /\ UNCHANGED <<args, style_config, has_field,
                   image_files, loop_i, successful, failed, bret>>
    /\ UNCHANGED <<dotVars, normVars, lineVars, quoteVars>>

\* batch_generate, lines 302-329: the images of the directory; none: return 1
BStart ==
    /\ mpc = "batch"
    /\ IF ~image_files
       THEN mpc' = "batch_return" /\ bret' = "1"
       ELSE mpc' = "batch_loop" /\ bret' = bret
    /\ loop_i' = 0 /\ successful' = 0 /\ failed' = 0
    /\ UNCHANGED <<args, style_config, has_field, stages, saved, ret, image_files>>
    /\ UNCHANGED <<dotVars, normVars, lineVars, quoteVars>>

\* the loop "for i in range(count)" has a next item
LoopContinues(n, count) == n < count

\* what the except clause of the loop does with the counters
CountFailureAsSuccess(s, f) == <<s + 1, f>>

CountFailure(s, f) == <<s, f + 1>>

\* lines 331-379: one item; whatever stage raises, the item counts as failed
\* and the loop goes on
BItem ==
    /\ mpc = "batch_loop"
    /\ LoopContinues(loop_i, args.count)
    /\ \E outcome \in {"ok", "preprocess", "render", "overlay", "save"} :
          /\ style_config' \in { HALFTONE_STYLES[st] : st \in DOMAIN HALFTONE_STYLES }
          /\ IF outcome = "ok"
             THEN /\ saved' = saved + 1
                  /\ successful' = successful + 1 /\ failed' = failed
             ELSE /\ saved' = saved
                  /\ successful' = CountFailure(successful, failed)[1]
                  /\ failed' = CountFailure(successful, failed)[2]
    /\ loop_i' = loop_i + 1
    /\ UNCHANGED <<args, has_field, stages, ret, mpc, image_files, bret>>
    /\ UNCHANGED <<dotVars, normVars, lineVars, quoteVars>>

\* lines 381-389: the summary, and return 0 if failed == 0 else 1
BatchResult(f) == IF f = 0 THEN "0" ELSE "1"

BFinish ==
    /\ mpc = "batch_loop"
    /\ ~LoopContinues(loop_i, args.count)
    /\ bret' = BatchResult(failed)
    /\ mpc' = "batch_return"
    /\ UNCHANGED <<args, style_config, has_field, stages, saved, ret,
                   image_files, loop_i, successful, failed>>
    /\ UNCHANGED <<dotVars, normVars, lineVars, quoteVars>>

\* main, lines 161-162: batch_generate(...) then a bare return
MBatchReturn ==
    /\ mpc = "batch_return"
    /\ ret' = "None"
    /\ mpc' = "exit"
    /\ UNCHANGED <<args, style_config, has_field, stages, saved,
                   image_files, loop_i, successful, failed, bret>>
    /\ UNCHANGED <<dotVars, normVars, lineVars, quoteVars>>

CliNext ==
    \/ MParse \/ MConfig \/ MPreprocess \/ MRender \/ MOverlay \/ MSave
    \/ BStart \/ BItem \/ BFinish \/ MBatchReturn

-----------------------------------------------------------------------------
(* half_tone.py: the contour renderer *)

num_levels == 15
MinContourLen == 10
StrokeScale == 4

MaxVertices == 11
MaxContours == 2

\* brightness_level = (i + 1) / (num_levels + 1), as the fraction <<num, den>>
BrightnessLevel(i) == <<i + 1, num_levels + 1>>

\* threshold = int(brightness_level * 255); the product is exact in a float
ThresholdOfIndex(i) == (i * 255) \div (num_levels + 1)

Threshold(i) ==
    LET level == BrightnessLevel(i) IN (level[1] * 255) \div level[2]

\* if len(contour) > 10
ContourKeptFromMinimum(n) == n >= MinContourLen

ContourKept(n) == n > MinContourLen

\* round(num / den) as Python rounds: to the nearest, a tie to the even one
RoundHalfEven(num, den) ==
    LET q == num \div den
        r == num % den
    IN  IF 2 * r < den THEN q
        ELSE IF 2 * r > den THEN q + 1
        ELSE IF q % 2 = 0 THEN q ELSE q + 1

\* line_width = max(1, int(4 * (1 - brightness_level))); int() truncates
LineWidthRounded(i) ==
    LET level == BrightnessLevel(i)
    IN  Max(1, RoundHalfEven(StrokeScale * (level[2] - level[1]), level[2]))

LineWidth(i) ==
    LET level == BrightnessLevel(i)
    IN  Max(1, (StrokeScale * (level[2] - level[1])) \div level[2])

\* the vertex counts of the contours cv2.findContours may return
ContourLengths == MinContourLen - 1 .. MaxVertices

\* what the loop over the contours of level i does with a contour of n vertices
TraceContour(i, n) ==
    [i |-> i, threshold |-> Threshold(i), n |-> n, drawn |-> ContourKept(n),
     line_width |-> IF ContourKept(n) THEN LineWidth(i) ELSE 0]

LineReset == level_i = 0 /\ traced = <<>> /\ lpc = "start"

\* the contour renderer at rest, for the specifications of the other components
LineIdle == LineReset

LineInit == LineReset

\* lines 194-199: the canvas and the uint8 copy of the brightness map
LStart ==
    /\ lpc = "start"
    /\ lpc' = "levels" /\ level_i' = 0
    /\ UNCHANGED <<traced, dotVars, normVars, cliVars, quoteVars>>

\* lines 204-238: one level; findContours returns some contours, each one is
\* drawn or filtered, in the order returned
LLevel ==
    /\ lpc = "levels"
    /\ level_i < num_levels
    /\ \E k \in 0 .. MaxContours - Len(traced) :
          \E contours \in [1 .. k -> ContourLengths] :
              traced' = traced \o [j \in 1 .. k |-> TraceContour(level_i, contours[j])]
    /\ level_i' = level_i + 1
    /\ UNCHANGED <<lpc, dotVars, normVars, cliVars, quoteVars>>

\* line 240: return canvas
LFinish ==
    /\ lpc = "levels"
    /\ ~(level_i < num_levels)
    /\ lpc' = "done"
    /\ UNCHANGED <<level_i, traced, dotVars, normVars, cliVars, quoteVars>>

LineNext == LStart \/ LLevel \/ LFinish

-----------------------------------------------------------------------------
(* quote_overlay.py: the banner *)

MaxQuoteLen == 2
MaxRepeat == 2
MaxImageWidth == 12

\* len((" • " + quote_text) * repeat_count): empty for repeat_count <= 0
RepeatedLen(q, r) == IF r > 0 THEN (3 + q) * r ELSE 0

\* bbox[2] - bbox[0] of textbbox, in glyph widths: 0 for the empty text
TextWidth(n) == n

QuoteReset == text_width = 0 /\ x_offset = 0 /\ draws = 0 /\ qpc = "start"

\* the overlay at rest, for the specifications of the other components
QuoteIdle ==
    /\ quote_len = 0 /\ repeat_count = 12 /\ image_width = 0
    /\ QuoteReset

QuoteInit ==
    /\ quote_len \in 0 .. MaxQuoteLen
    /\ repeat_count \in -1 .. MaxRepeat
    /\ image_width \in 1 .. MaxImageWidth
    /\ QuoteReset

\* lines 29-97: the copy, the font, the repeated text and its measured width,
\* the banner; x_offset = 0
QStart ==
    /\ qpc = "start"
    /\ text_width' = TextWidth(RepeatedLen(quote_len, repeat_count))
    /\ x_offset' = 0
    /\ qpc' = "loop"
    /\ UNCHANGED <<quote_len, repeat_count, image_width, draws>>
    /\ UNCHANGED <<dotVars, normVars, cliVars, lineVars>>

\* lines 98-105: one pass of "while x_offset < width"; the model follows a run
\* for image_width passes
QDraw ==
    /\ qpc = "loop"
    /\ x_offset < image_width
    /\ draws < MaxImageWidth
    /\ draws' = draws + 1
    /\ x_offset' = x_offset + text_width
    /\ UNCHANGED <<quote_len, repeat_count, image_width, text_width, qpc>>
    /\ UNCHANGED <<dotVars, normVars, cliVars, lineVars>>

\* lines 107-113: the loop is left, the overlay is composited and returned
QFinish ==
    /\ qpc = "loop"
    /\ ~(x_offset < image_width)
    /\ qpc' = "done"
    /\ UNCHANGED <<quote_len, repeat_count, image_width, text_width, x_offset, draws>>
    /\ UNCHANGED <<dotVars, normVars, cliVars, lineVars>>

QuoteNext == QStart \/ QDraw \/ QFinish

-----------------------------------------------------------------------------
(* The specifications: one per component, the other components at rest *)

InitDot == DotInit /\ NormIdle /\ CliIdle /\ LineIdle /\ QuoteIdle

SpecDot == InitDot /\ [][DotNext]_vars

InitNorm == NormInit /\ DotIdle /\ CliIdle /\ LineIdle /\ QuoteIdle

SpecNorm == InitNorm /\ [][NormNext]_vars

InitCli == CliInit /\ DotIdle /\ LineIdle /\ QuoteIdle

SpecCli == InitCli /\ [][CliNext]_vars

InitLine == LineInit /\ DotIdle /\ NormIdle /\ CliIdle /\ QuoteIdle

SpecLine == InitLine /\ [][LineNext]_vars

InitQuote == QuoteInit /\ DotIdle /\ NormIdle /\ CliIdle /\ LineIdle

SpecQuote == InitQuote /\ [][QuoteNext]_vars

-----------------------------------------------------------------------------
(* Properties of the dot renderers *)

AllBrightness == { b \in AllIntensities : b[1] <= b[2] }

\* the size a renderer gives a cell of brightness b (0: skipped), tabulated
SizeTable ==
    [r \in Renderers |->
        [m \in { c.max_radius : c \in ValidConfigs \cup ThresholdConfigs \cup {PresetConfig} } |->
            [b \in AllBrightness |->
                LET cfg == [max_radius |-> m]
                IN  IF MarkSkipped(r[1], cfg, r[2], b) THEN 0
                    ELSE MarkExtent(r[1], cfg, r[2], b)]]]

SizeAt(b) == SizeTable[<<kind, dot_gamma>>][config.max_radius][b]

UniformField(v) == \A p \in DOMAIN brightness_map : brightness_map[p] = v

GridOrigins(extent, cell_size) == { o \in 0 .. extent - 1 : o % cell_size = 0 }

\* every grid cell has been visited, once, in row-major order
AllCellsVisited ==
    /\ Len(cells) = Cardinality(GridOrigins(width, config.cell_size))
                    * Cardinality(GridOrigins(height, config.cell_size))
    /\ \A i \in 1 .. Len(cells) :
          /\ cells[i].x \in GridOrigins(width, config.cell_size)
          /\ cells[i].y \in GridOrigins(height, config.cell_size)
          /\ \A j \in 1 .. Len(cells) :
                i < j => \/ cells[i].y < cells[j].y
                         \/ cells[i].y = cells[j].y /\ cells[i].x < cells[j].x

\* every visited cell carries a mark of half-extent max_radius at its centre
FullMarks ==
    /\ AllCellsVisited
    /\ \A i \in 1 .. Len(cells) :
          /\ cells[i].drawn
          /\ cells[i].size = config.max_radius * FixedOne
          /\ cells[i].cx = cells[i].x + config.cell_size \div 2
          /\ cells[i].cy = cells[i].y + config.cell_size \div 2

\* b1 <= b2 implies size(b1) >= size(b2), for every pair of brightnesses, per
\* renderer and max_radius
SizeMonotone ==
    [r \in DOMAIN SizeTable |->
        [m \in DOMAIN SizeTable[r] |->
            \A b1, b2 \in AllBrightness :
                b1[1] * b2[2] <= b2[1] * b1[2]
                    => SizeTable[r][m][b1] >= SizeTable[r][m][b2]]]

\* C1: for fixed cell_size, max_radius and dot gamma the mark size (radius or
\* half-side, 0 for a skipped cell) is non-increasing in the cell brightness:
\* the size each visited cell gets is the size of its mean brightness, and for
\* the renderer and max_radius of the run b1 <= b2 implies size(b1) >= size(b2);
\* so it is between any two visited cells.
C1_SizeNonIncreasing ==
    /\ SizeMonotone[<<kind, dot_gamma>>][config.max_radius]
    /\ \A i \in 1 .. Len(cells) :
          /\ cells[i].size = SizeAt(Reduce(cells[i].sum, cells[i].n * LevelOne))
          /\ \A j \in 1 .. Len(cells) :
                cells[i].sum * cells[j].n <= cells[j].sum * cells[i].n
                    => cells[i].size >= cells[j].size

C1_Witness ==
    \E i, j \in 1 .. Len(cells) :
        /\ cells[i].sum * cells[j].n < cells[j].sum * cells[i].n
        /\ cells[i].size > cells[j].size
        /\ cells[j].size > 0

\* C2: with brightness_threshold configured, a cell whose sampled brightness is
\* greater than the threshold gets no mark.
C2_ThresholdSkipsBrightCells ==
    \A i \in 1 .. Len(cells) : \A t \in config.brightness_threshold :
        cells[i].sum > t * cells[i].n => ~cells[i].drawn

\* C4 as claimed: on a uniform brightness-0 field with no threshold every grid
\* cell gets a mark of size exactly max_radius, whatever max_radius > 0 is.
C4_BlackFieldFullMarksAnyRadius ==
    ( /\ dpc = "done" /\ UniformField(0)
      /\ config.brightness_threshold = {}
      /\ config.cell_size > 0 /\ config.max_radius > 0 )
    => FullMarks

\* C4 (amended): on a uniform brightness-0 field with no threshold and
\* max_radius at least the visibility floor of 0.6, every grid cell gets a mark
\* centred at the cell centre with size exactly max_radius, for every dot gamma;
\* the 12x12 field with cell_size 12 and max_radius 7 gets exactly one mark,
\* centred at (6, 6), of radius 7.
C4_BlackFieldFullMarks ==
    ( /\ dpc = "done" /\ UniformField(0)
      /\ config.brightness_threshold = {}
      /\ config.cell_size > 0 /\ config.max_radius >= MinRadius )
    => /\ FullMarks
       /\ (width = 12 /\ height = 12 /\ config = PresetConfig)
            => /\ Len(cells) = 1
               /\ cells[1].cx = 6 /\ cells[1].cy = 6
               /\ cells[1].size = 70 * FixedOne

C4_Witness ==
    /\ dpc = "done" /\ UniformField(0)
    /\ width = 12 /\ height = 12 /\ config = PresetConfig
    /\ Len(cells) = 1 /\ cells[1].drawn

\* C5: on a uniform brightness-1 field every dot renderer draws no mark and
\* returns the flat background fill, for every cell_size > 0 and max_radius > 0.
C5_WhiteFieldNoMarks ==
    ( /\ dpc = "done" /\ UniformField(LevelOne)
      /\ config.cell_size > 0 /\ config.max_radius > 0 )
    => /\ canvas_made /\ canvas = {}
       /\ AllCellsVisited
       /\ \A i \in 1 .. Len(cells) : ~cells[i].drawn

C5_Witness ==
    /\ dpc = "done" /\ UniformField(LevelOne)
    /\ config.cell_size > 0 /\ Len(cells) > 1
    /\ canvas_made /\ canvas = {}

Unvisited ==
    { o \in GridOrigins(width, config.cell_size) \X GridOrigins(height, config.cell_size) :
        \A k \in 1 .. Len(cells) : cells[k].x # o[1] \/ cells[k].y # o[2] }

\* lines 50-95 with the cells taken in any order: the pass of the inner loop
\* for a cell not visited yet
DotCellAnyOrder ==
    /\ dpc = "loop"
    /\ \E o \in Unvisited :
          LET c == CellOutcome(brightness_map, width, height, kind, config, dot_gamma,
                               o[1], o[2])
          IN  /\ cells' = Append(cells, c)
              /\ canvas' = IF c.drawn
                           THEN Paint(canvas, MarkPixels(width, height, kind, c))
                           ELSE canvas
              /\ x' = o[1] /\ y' = o[2]
              /\ dpc' = IF Unvisited = {o} THEN "done" ELSE "loop"
    /\ UNCHANGED <<brightness_map, width, height, config, kind, dot_gamma, canvas_made>>
    /\ UNCHANGED <<normVars, cliVars, lineVars, quoteVars>>

OrderNext == DotStart \/ DotCellAnyOrder

\* the runs whose visiting orders are explored: fields of up to MaxWidth + 1
\* pixels, black, dark or white, under the valid configurations
OrderInit ==
    /\ \E r \in Renderers : kind = r[1] /\ dot_gamma = r[2]
    /\ \E w \in 1 .. MaxWidth, h \in Heights :
          /\ w * h <= MaxWidth + 1
          /\ width = w /\ height = h
          /\ brightness_map \in [Pixels(w, h) -> {0, 3, LevelOne}]
    /\ config \in ValidConfigs
    /\ DotReset

InitOrder == OrderInit /\ NormIdle /\ CliIdle /\ LineIdle /\ QuoteIdle

SpecOrder == InitOrder /\ [][OrderNext]_vars

\* the canvas after the first k cells of the row-major order of lines 49-50
RECURSIVE RasterCanvas(_)
RasterCanvas(k) ==
    IF k = 0 THEN {}
    ELSE LET nx == Cardinality(GridOrigins(width, config.cell_size))
             c  == CellOutcome(brightness_map, width, height, kind, config, dot_gamma,
                               ((k - 1) % nx) * config.cell_size,
                               ((k - 1) \div nx) * config.cell_size)
         IN  IF c.drawn
             THEN Paint(RasterCanvas(k - 1), MarkPixels(width, height, kind, c))
             ELSE RasterCanvas(k - 1)

\* C14: the final canvas does not depend on the order in which the cells are
\* visited: whatever the order, the canvas at the end is the one the row-major
\* order of the code gives, also when marks of neighbouring cells overlap.
C14_OrderIndependent ==
    (dpc = "done" /\ config.cell_size > 0) => canvas = RasterCanvas(Len(cells))

\* a run that has visited a later cell before an earlier one, their marks
\* overlapping without being equal
C14_Witness ==
    /\ dpc = "done" /\ config.cell_size > 0
    /\ \E j, k \in 1 .. Len(cells) :
          /\ j < k /\ cells[j].drawn /\ cells[k].drawn
          /\ \/ cells[j].y > cells[k].y
             \/ cells[j].y = cells[k].y /\ cells[j].x > cells[k].x
          /\ 2 * config.max_radius > config.cell_size * RadiusUnit
          /\ LET mj == MarkPixels(width, height, kind, cells[j])
                 mk == MarkPixels(width, height, kind, cells[k])
             IN  mj \cap mk # {} /\ mj # mk

\* C19: for the same field and configuration generate_square_halftone and
\* generate_classic_halftone mark exactly the same cells, at the same centres,
\* and the half-side of each square is the radius of the circle: every cell
\* visited gets the same outcome from the two renderers.
C19_SquareMatchesClassic ==
    \A k \in 1 .. Len(cells) :
        /\ CellOutcome(brightness_map, width, height, "square", config, ClassicGamma,
                       cells[k].x, cells[k].y)
             = CellOutcome(brightness_map, width, height, "classic", config, ClassicGamma,
                           cells[k].x, cells[k].y)
        /\ kind \in {"square", "classic"} =>
              cells[k] = CellOutcome(brightness_map, width, height, "classic", config,
                                     ClassicGamma, cells[k].x, cells[k].y)

\* a run of the square renderer with a partial square and a cell under the floor
C19_Witness ==
    /\ dpc = "done" /\ kind = "square"
    /\ \E j, k \in 1 .. Len(cells) :
          /\ cells[j].drawn /\ cells[j].size < config.max_radius * FixedOne
          /\ ~cells[k].drawn /\ cells[k].sum < cells[k].n * LevelOne

-----------------------------------------------------------------------------
(* Properties of the normalizer *)

InUnitRange(a) == a.k = "fin" /\ 0 <= a.v /\ a.v <= NormOne

\* C6: every value of the brightness field the normalizer returns lies in
\* [0,1] and is neither NaN nor infinite, for every decodable image, every
\* gamma the function accepts and both settings of the contrast flag, whether
\* the stretch is applied or skipped.
C6_FieldInUnitRange ==
    npc = "done" => \A k \in DOMAIN gray : InUnitRange(gray[k])

\* C9: with gamma = 1.0 the field is identical to the one the same pipeline
\* produces with its gamma stage removed, at every stage and at the return, for
\* every image and every setting of the other stage flags.
C9_UnitGammaIsNoOp ==
    gamma = <<1, 1>> => gray = gray_ref

C9_Witness ==
    /\ npc = "done" /\ gamma = <<1, 1>> /\ stretched
    /\ Len(gray) > 1 /\ gray = gray_ref
    /\ \E k \in DOMAIN gray : gray[k] # Fin(ToFloat(luma[k]))

\* the rule of the stretch with a given threshold: the field after is
\* clip((v - low) / (high - low), 0, 1) of the field before if high - low
\* exceeds the threshold, and the field before otherwise
StretchRule(before, after, threshold) ==
    LET low  == Percentile(before, 1)
        high == Percentile(before, 99)
    IN  IF FGreater(FSub(high, low), Fin(threshold))
        THEN /\ DOMAIN after = DOMAIN before
             /\ \A i \in DOMAIN before :
                   after[i] = FClip01(FDiv(FSub(before[i], low), FSub(high, low)))
        ELSE after = before

\* C12 as claimed: both variants stretch by the same rule with the same
\* threshold (0.05).
C12_StretchSameThreshold ==
    [][(npc = "edge_done" /\ npc' = "done") => StretchRule(gray, gray', 50)]_vars

\* C12 (amended): when the difference between the 99th and the 1st percentile
\* exceeds the threshold every value v becomes clip((v - low) / (high - low),
\* 0, 1), otherwise (difference at or below the threshold, or NaN) the field
\* is returned unchanged; the threshold is 0.05 in preprocess_image and 0.1 in
\* preprocess_image_advanced.
C12_StretchRule ==
    [][(npc = "edge_done" /\ npc' = "done") =>
          StretchRule(gray, gray', IF variant = "advanced" THEN 100 ELSE 50)]_vars

\* the advanced variant has returned a field unchanged whose percentile
\* difference is above 0.05
C12_Witness ==
    /\ npc = "done" /\ variant = "advanced" /\ ~stretched
    /\ FGreater(FSub(Percentile(gray, 99), Percentile(gray, 1)), Fin(50))
    /\ \A k \in DOMAIN gray : gray[k].k = "fin"

-----------------------------------------------------------------------------
(* Properties of the command line driver *)

SingleMode == ~args.batch /\ args.input

\* a value given on the command line that is no valid cell_size, max_radius or gamma
InvalidOverride ==
    \E v \in args.cell_size \cup args.max_radius \cup args.gamma : v <= 0

\* C3: a configuration with non-positive cell_size or max_radius, or gamma <= 0,
\* is rejected before any pixel processing begins: with such a value given on
\* the command line neither preprocess_image nor the renderer is entered.
C3_InvalidConfigRejected ==
    (SingleMode /\ InvalidOverride) => stages = <<>>

\* C7: when the image cannot be decoded or has zero area, preprocess_image
\* raises and returns no field, and the run ends with status 1 there: no
\* canvas is created, no overlay is applied, no output file is written.
C7_DecodeFailureStopsRun ==
    (SingleMode /\ image_file # "ok") =>
        /\ ~has_field /\ saved = 0
        /\ \A k \in DOMAIN stages : stages[k] = "preprocess"
        /\ stages # <<>> => mpc = "exit" /\ ret = "1"

C7_Witness ==
    /\ SingleMode /\ image_file = "zero_area"
    /\ stages = <<"preprocess">> /\ mpc = "exit" /\ ret = "1"

\* C8: a batch run of count items (count >= 0, images found) goes through all
\* count items even when some fail: after every iteration successful + failed
\* is the number of items attempted, successful counts the items that were
\* written and failed the others, at the end successful + failed = count, and
\* the result is 0 exactly when failed = 0.
C8_BatchCountsAllItems ==
    (args.batch /\ image_files /\ args.count >= 0) =>
        /\ successful + failed = loop_i
        /\ successful = saved
        /\ loop_i <= args.count
        /\ bret # "running" =>
              /\ loop_i = args.count
              /\ bret = "0" <=> failed = 0

C8_Witness ==
    /\ args.batch /\ image_files /\ bret = "1"
    /\ loop_i = args.count /\ successful > 0 /\ failed > 0 /\ saved = successful

\* the stages of a single run, in the order of main
ExpectedStages ==
    IF args.no_quote THEN <<"preprocess", "render", "save">>
    ELSE <<"preprocess", "render", "overlay", "save">>

\* C16: in a single run the stages execute in the order preprocess, render,
\* quote overlay (unless --no-quote), save; the file is written only after
\* every preceding stage has succeeded, a failure in a stage makes main return
\* 1 with no later stage executed, and main returns 0 only when the save
\* succeeded.
C16_StagesInOrder ==
    SingleMode =>
        /\ Len(stages) <= Len(ExpectedStages)
        /\ stages = SubSeq(ExpectedStages, 1, Len(stages))
        /\ saved \in {0, 1}
        /\ saved = 1 => stages = ExpectedStages /\ has_field /\ ret = "0"
        /\ ret = "1" => mpc = "exit" /\ saved = 0
        /\ ret = "0" => mpc = "exit" /\ saved = 1
        /\ ret \in {"running", "0", "1"}
        /\ (mpc = "exit" /\ stages # ExpectedStages) => ret = "1"

\* the overlay has failed after two good stages, and nothing was saved
C16_Witness ==
    /\ SingleMode /\ ~args.no_quote
    /\ stages = <<"preprocess", "render", "overlay">>
    /\ mpc = "exit" /\ ret = "1" /\ saved = 0

\* C18: the exit status of main is non-zero whenever the run did not fully
\* succeed: a single run with a failed stage, a batch with a failed item or
\* with no image file in the input directory (sys.exit(main()): a return of
\* None or 0 is exit status 0).
C18_FailureExitsNonZero ==
    ( /\ mpc = "exit"
      /\ \/ ~args.batch /\ saved = 0
         \/ args.batch /\ (failed > 0 \/ bret = "1") )
    => ret \notin {"0", "None"}

-----------------------------------------------------------------------------
(* Properties of the contour renderer *)

\* C11 as claimed: a traced contour is drawn exactly if it has at least 10
\* vertices.
C11_DrawnIffAtLeastTen ==
    \A k \in 1 .. Len(traced) : traced[k].drawn <=> traced[k].n >= 10

\* C11 (amended): a traced contour is drawn exactly if it has more than 10
\* vertices, that is at least 11: no contour of 10 or fewer vertices is drawn
\* and every contour of 11 or more is.
C11_DrawnIffMoreThanTen ==
    \A k \in 1 .. Len(traced) : traced[k].drawn <=> traced[k].n >= 11

C11_Witness ==
    \E j, k \in 1 .. Len(traced) :
        /\ traced[j].n = 10 /\ ~traced[j].drawn
        /\ traced[k].n = 11 /\ traced[k].drawn

\* the widths of the 15 levels: truncated, at least 1, non-increasing
WidthsOfLevels ==
    \A i \in 0 .. num_levels - 1 :
        /\ LineWidth(i) = Max(1, (15 - i) \div 4)
        /\ LineWidth(i) = Max(1, RoundHalfEven(17 * (15 - i), 80))
        /\ LineWidth(i) >= 1
        /\ \A j \in i .. num_levels - 1 : LineWidth(i) >= LineWidth(j)

\* C13 as claimed: the stroke width of a contour drawn at level (i+1)/16 is
\* max(1, round(4 * (1 - level))).
C13_WidthIsRounded ==
    \A k \in 1 .. Len(traced) :
        traced[k].drawn =>
            traced[k].line_width
                = Max(1, RoundHalfEven(4 * (16 - (traced[k].i + 1)), 16))

\* C13 (amended): the stroke width of a contour drawn at level (i+1)/16 is
\* max(1, floor(4 * (1 - level))) = max(1, (15 - i) div 4), truncated and not
\* rounded, for every one of the 15 levels (which is what rounding gives with
\* k = 3.4); it is at least 1 and non-increasing as the level index increases.
C13_WidthIsTruncated ==
    /\ WidthsOfLevels
    /\ \A k \in 1 .. Len(traced) :
          traced[k].drawn =>
              /\ traced[k].line_width = Max(1, (15 - traced[k].i) \div 4)
              /\ \A j \in 1 .. k :
                    traced[j].drawn => traced[j].line_width >= traced[k].line_width

C13_Witness ==
    \E j, k \in 1 .. Len(traced) :
        /\ traced[j].drawn /\ traced[j].i = 0 /\ traced[j].line_width = 3
        /\ traced[k].drawn /\ traced[k].i = 14 /\ traced[k].line_width = 1

\* the 15 levels: inside (0, 1), increasing, with distinct thresholds in 1..254
LevelsOfRun ==
    \A i \in 0 .. num_levels - 1 :
        LET level == BrightnessLevel(i)
        IN  /\ 0 < level[1] /\ level[1] < level[2]
            /\ Threshold(i) \in 1 .. 254
            /\ \A j \in 0 .. num_levels - 1 :
                  i < j => /\ level[1] * BrightnessLevel(j)[2]
                                < BrightnessLevel(j)[1] * level[2]
                           /\ Threshold(i) # Threshold(j)

\* C15: the contour renderer uses the 15 levels (i+1)/16, i = 0..14: every
\* level is strictly between 0 and 1, the levels strictly increase with i, the
\* thresholds int(level * 255) are pairwise distinct and in 1..254, and the
\* levels are drawn in increasing index order: every contour is traced at the
\* threshold of its level, at a level already passed, after the contours of
\* the lower levels.
C15_LevelsOrdered ==
    /\ LevelsOfRun
    /\ level_i \in 0 .. num_levels
    /\ \A k \in 1 .. Len(traced) :
          /\ traced[k].i \in 0 .. level_i - 1
          /\ traced[k].threshold = (255 * (traced[k].i + 1)) \div 16
          /\ \A j \in 1 .. k : traced[j].i <= traced[k].i

C15_Witness ==
    /\ lpc = "done" /\ level_i = num_levels
    /\ \E j, k \in 1 .. Len(traced) :
          /\ j < k /\ traced[j].i = 0 /\ traced[j].threshold = 15
          /\ traced[k].i = 14 /\ traced[k].threshold = 239

-----------------------------------------------------------------------------
(* Properties of the quote overlay *)

\* C17: add_quote_overlay terminates for every quote and configuration: every
\* pass of the loop that repeats the banner text advances x_offset by a
\* strictly positive amount, also when repeat_count is 0 or the measured text
\* width is 0.
C17_LoopAdvances ==
    [][(qpc = "loop" /\ draws' = draws + 1) => x_offset' > x_offset]_vars

====
